---- MODULE Spec2Model ----
(***************************************************************************)
(* Claim-based work-queue coordination of migrate-supabase.                *)
(*                                                                         *)
(* The durable store (db_setup.sql) holds five tables; crawlers            *)
(* (discover-files.js) and migration workers (migrate-files.js) are        *)
(* processes whose every store call is one step; the operator acts through *)
(* the control surface (control.js).  A table is a sequence of rows, a     *)
(* row's id its index (rows are never deleted); migration_logs, whose rows *)
(* nothing refers to, is a bag of rows.                                    *)
(***************************************************************************)
EXTENDS Integers, Sequences, FiniteSets, Bags, TLC

VARIABLES
  now,                \* the store's clock now(), in minutes
  migration_jobs,     \* db_setup.sql:2
  migration_progress, \* db_setup.sql:12
  scan_queue,         \* db_setup.sql:23, the frontier
  bunny_file_map,     \* db_setup.sql:34, the inventory
  migration_logs,     \* db_setup.sql:49
  crawler,            \* per crawler process: position in run() and its locals
  worker,             \* per worker process: position in run() and its locals
  ops,                \* number of outside events so far: control requests, signals, kills, store faults
  ghost               \* history: grants per row, claim times, deltas issued,
                      \* empty claims in a row, time of the last reap of claims

vars == <<now, migration_jobs, migration_progress, scan_queue, bunny_file_map,
          migration_logs, crawler, worker, ops, ghost>>

\* ------------------------------------------------------------------ bounds
NumWorkers == 2
NumCrawlers == 2
MaxTime == 31
MaxEvents == 1
MaxBatch == 3

\* ------------------------------------------------------- program constants
MAX_RETRIES == 2
BATCH_SIZE == 2
CONCURRENCY == 5
HEARTBEAT_MS == 15000
STALE_MINUTES == 2
RECLAIM_MINUTES == 30

NULL == -1
Workers == 1..NumWorkers
Crawlers == 1..NumCrawlers

\* --------------------------------------------------- the source hierarchy
\* What the source store answers to list(directoryPath): '/' holds a.txt
\* (10 bytes) and b/, and b/ holds c.txt (20 bytes).
ListDir(path) ==
  IF path = "/"
    THEN << [ObjectName |-> "a.txt", IsDirectory |-> FALSE, Length |-> 10],
            [ObjectName |-> "b", IsDirectory |-> TRUE, Length |-> 0] >>
  ELSE IF path = "/b/"
    THEN << [ObjectName |-> "c.txt", IsDirectory |-> FALSE, Length |-> 20] >>
  ELSE << >>

\* ORDER BY path: the paths of the hierarchy in the store's collation order.
PathOrder == << "/", "/a.txt", "/b/", "/b/c.txt" >>
NumPaths == Len(PathOrder)
PathRank(p) == CHOOSE i \in 1..NumPaths : PathOrder[i] = p

RowIds == 1..NumPaths
JobIds == 1..(NumWorkers + NumCrawlers)

\* ------------------------------------------------------ store primitives

\* Variant: no unique index, every insert appends.
InsertAlways(table, row) == Append(table, row)

\* INSERT under a unique index on path: a second row for a path raises 23505,
\* which insertDir and insertFileOrDir swallow; the table is left as it was.
InsertUnique(table, row) ==
  IF \E i \in DOMAIN table : table[i].path = row.path
    THEN table
    ELSE Append(table, row)

\* Variant: an upsert, the row of a known path is set back to queued.
InsertDirRequeue(sq, path, parent_path) ==
  IF \E i \in DOMAIN sq : sq[i].path = path
    THEN [i \in DOMAIN sq |->
            IF sq[i].path = path
              THEN [sq[i] EXCEPT !.status = "queued", !.claimed_at = NULL] ELSE sq[i]]
    ELSE Append(sq, [path |-> path, parent_path |-> parent_path,
                     status |-> "queued", claimed_at |-> NULL])

InsertDir(sq, path, parent_path) ==
  InsertUnique(sq, [path |-> path, parent_path |-> parent_path,
                    status |-> "queued", claimed_at |-> NULL])

InsertFileOrDir(bfm, entry) == InsertUnique(bfm, entry)

\* Variant: the first n ids of cand in insertion order.
RECURSIVE FirstById(_, _, _)
FirstById(table, cand, n) ==
  IF n = 0 \/ cand = {} THEN {}
  ELSE LET m == CHOOSE i \in cand : \A j \in cand : i <= j
       IN {m} \cup FirstById(table, cand \ {m}, n - 1)

\* The first n ids of cand in path order (ORDER BY path ... LIMIT n).
RECURSIVE FirstByPath(_, _, _)
FirstByPath(table, cand, n) ==
  IF n = 0 \/ cand = {} THEN {}
  ELSE LET m == CHOOSE i \in cand :
                  \A j \in cand : PathRank(table[i].path) <= PathRank(table[j].path)
       IN {m} \cup FirstByPath(table, cand \ {m}, n - 1)

\* claim_next_dir, the cte: SELECT ... WHERE status = 'queued' ORDER BY path
\* FOR UPDATE SKIP LOCKED LIMIT 1.  The rows returned are row-locked by the
\* calling transaction until it commits.
SelectQueuedDir(sq, locked) ==
  FirstByPath(sq, {i \in DOMAIN sq : sq[i].status = "queued" /\ i \notin locked}, 1)

\* claim_next_dir, the UPDATE: status = 'claimed', claimed_at = now().
UpdateClaimedDir(sq, ids, t) ==
  [i \in DOMAIN sq |->
     IF i \in ids THEN [sq[i] EXCEPT !.status = "claimed", !.claimed_at = t]
     ELSE sq[i]]

\* Variant: the cte without row locks, rows locked by others are selected too.
SelectIgnoringLocks(bfm, locked, batch_size) ==
  FirstByPath(bfm, {i \in DOMAIN bfm : bfm[i].status = "pending" /\ ~bfm[i].is_dir},
              batch_size)

\* claim_files_to_migrate, the cte: SELECT ... WHERE status = 'pending' AND
\* is_dir = FALSE ORDER BY path FOR UPDATE SKIP LOCKED LIMIT batch_size.
SelectPendingFiles(bfm, locked, batch_size) ==
  FirstByPath(bfm,
              {i \in DOMAIN bfm : bfm[i].status = "pending" /\ ~bfm[i].is_dir
                                  /\ i \notin locked},
              batch_size)

\* claim_files_to_migrate, the UPDATE: SET status = 'scanned' and nothing
\* else; the worker_id that claimBatch passes is not a parameter of the
\* function and claimed_at / claimed_by are not written.
UpdateClaimedFiles(bfm, ids) ==
  [i \in DOMAIN bfm |->
     IF i \in ids THEN [bfm[i] EXCEPT !.status = "scanned"] ELSE bfm[i]]

ZeroDelta == [total_bytes |-> 0, total_files |-> 0, scanned_dirs |-> 0,
              migrated_files |-> 0, failed_files |-> 0]
Counters == DOMAIN ZeroDelta

\* increment_progress: one UPDATE adding every delta to the row of the job.
IncrementProgress(prog, job_id, delta) ==
  [i \in DOMAIN prog |->
     IF prog[i].job_id = job_id
       THEN [prog[i] EXCEPT !.total_bytes = @ + delta.total_bytes,
                            !.total_files = @ + delta.total_files,
                            !.scanned_dirs = @ + delta.scanned_dirs,
                            !.migrated_files = @ + delta.migrated_files,
                            !.failed_files = @ + delta.failed_files]
       ELSE prog[i]]

\* INSERT INTO migration_progress (job_id): counters at their default 0;
\* job_id is the primary key, a second row for a job is refused.
ProgressRow(job_id) == [job_id |-> job_id] @@ ZeroDelta

InsertProgress(prog, job_id) ==
  IF \E i \in DOMAIN prog : prog[i].job_id = job_id
    THEN prog
    ELSE Append(prog, ProgressRow(job_id))

\* UPDATE migration_jobs SET status = ... WHERE id = ...: no condition on the
\* status the row has (control.js:20, discover-files.js:89, migrate-files.js:229).
UpdateJobStatus(jobs, id, status) ==
  [i \in DOMAIN jobs |-> IF i = id THEN [jobs[i] EXCEPT !.status = status] ELSE jobs[i]]

\* UPDATE bunny_file_map SET status, claimed_at = null, claimed_by = null
\* WHERE id IN ids (finalizeFile, the retry endpoints).
UpdateFileStatus(bfm, ids, status) ==
  [i \in DOMAIN bfm |->
     IF i \in ids
       THEN [bfm[i] EXCEPT !.status = status, !.claimed_at = NULL, !.claimed_by = NULL]
       ELSE bfm[i]]

\* ------------------------------------------------------- migration worker
\* migrate-files.js.  pc is the await the process is suspended at:
\*   start   createJob (206)          poll     getJob (219)
\*   paused  sleep(2000) (220)        claim1   claimBatch (223)
\*   sleep   sleep(2000) (225)        claim2   claimBatch (226)
\*   txn1 / txn2   the claim transaction holds its row locks, not committed
\*   complete  update status completed (229)
\*   batch1 / batch2   Promise.all over the batch (236 / 232)
\*   exited  the loop was left        crashed  the process was killed
\*   fatal   run() threw: the catch of line 240
\*   off     the process has not been launched

NoJob == 0

IdleWorker == [pc |-> "start", job |-> NoJob, batch |-> {}, task |-> << >>]

\* Rows locked FOR UPDATE by a claim transaction that has not committed.
LockedFiles ==
  UNION {worker[w].batch : w \in {v \in Workers : worker[v].pc \in {"txn1", "txn2"}}}

JobStatus(id) == migration_jobs[id].status

\* createJob (migrate-files.js:20): a migrate job, status 'running' by the
\* column default (22), then its progress row (29).  No other process learns
\* the id of the job before createJob has returned: the two inserts are one
\* step.
MigrateJobRow == [kind |-> "migrate", status |-> "running",
                  last_heartbeat |-> NULL, created_at |-> now]

CreateJobM(w) ==
  /\ worker[w].pc = "start"
  /\ migration_jobs' = Append(migration_jobs, MigrateJobRow)
  /\ migration_progress' = InsertProgress(migration_progress, Len(migration_jobs) + 1)
  /\ worker' = [worker EXCEPT ![w].pc = "poll", ![w].job = Len(migration_jobs) + 1]
  /\ UNCHANGED <<now, scan_queue, bunny_file_map, migration_logs, crawler, ops, ghost>>

\* Variant: a poll that only looks for 'paused'.
AfterPollPausedOnly(status) ==
  IF status = "paused" THEN "paused" ELSE "claim1"

\* Lines 219-221: the status poll and its three ways on.
AfterPollM(status) ==
  IF status = "paused" THEN "paused"
  ELSE IF status \in {"stopped", "failed", "completed"} THEN "exited"
  ELSE "claim1"

GetJobM(w) ==
  /\ worker[w].pc = "poll"
  /\ worker' = [worker EXCEPT ![w].pc = AfterPollM(JobStatus(worker[w].job))]
  /\ UNCHANGED <<now, migration_jobs, migration_progress, scan_queue,
                 bunny_file_map, migration_logs, crawler, ops, ghost>>

\* Line 220: sleep(2000); continue.
PausedSleepM(w) ==
  /\ worker[w].pc = "paused"
  /\ worker' = [worker EXCEPT ![w].pc = "poll"]
  /\ UNCHANGED <<now, migration_jobs, migration_progress, scan_queue,
                 bunny_file_map, migration_logs, crawler, ops, ghost>>

\* claimBatch (48), first half: the transaction of claim_files_to_migrate
\* selects and locks its rows.
ClaimBatchSelect(w) ==
  /\ worker[w].pc \in {"claim1", "claim2"}
  /\ worker' = [worker EXCEPT
        ![w].pc = IF worker[w].pc = "claim1" THEN "txn1" ELSE "txn2",
        ![w].batch = SelectPendingFiles(bunny_file_map, LockedFiles, BATCH_SIZE)]
  /\ UNCHANGED <<now, migration_jobs, migration_progress, scan_queue,
                 bunny_file_map, migration_logs, crawler, ops, ghost>>

\* p-limit (18, 232, 236): the first CONCURRENCY entries of the batch start
\* at once, the others wait for a slot.
StartTask == [phase |-> "transfer", attempt |-> 1, uploaded |-> FALSE]
QueuedTask == [phase |-> "queued", attempt |-> 0, uploaded |-> FALSE]

Dispatch(bfm, batch) ==
  LET first == FirstByPath(bfm, batch, CONCURRENCY)
  IN [f \in batch |-> IF f \in first THEN StartTask ELSE QueuedTask]

\* Variant: any empty claim ends the run.
AfterClaimOnce(pc, batch) ==
  IF batch = {} THEN "complete" ELSE (IF pc = "txn1" THEN "batch1" ELSE "batch2")

\* Lines 224-231: where an empty and a non-empty result of each claim lead.
AfterClaimM(pc, batch) ==
  IF pc = "txn1" THEN (IF batch = {} THEN "sleep" ELSE "batch1")
  ELSE (IF batch = {} THEN "complete" ELSE "batch2")

\* claimBatch, second half: the UPDATE is applied, the transaction commits
\* and the rows are returned to the caller.
ClaimBatchCommit(w) ==
  /\ worker[w].pc \in {"txn1", "txn2"}
  /\ bunny_file_map' = UpdateClaimedFiles(bunny_file_map, worker[w].batch)
  /\ worker' = [worker EXCEPT
        ![w].pc = AfterClaimM(worker[w].pc, worker[w].batch),
        ![w].task = Dispatch(bunny_file_map, worker[w].batch)]
  /\ ghost' = [ghost EXCEPT
        !.fileGrants = [f \in RowIds |-> IF f \in worker[w].batch THEN @[f] + 1 ELSE @[f]],
        !.fileClaimedAt = [f \in RowIds |-> IF f \in worker[w].batch THEN now ELSE @[f]],
        !.emptyClaims = [@ EXCEPT ![w] = IF worker[w].batch = {} THEN @ + 1 ELSE 0]]
  /\ UNCHANGED <<now, migration_jobs, migration_progress, scan_queue,
                 migration_logs, crawler, ops>>

\* Line 225: sleep(2000) between the two claims.
SleepM(w) ==
  /\ worker[w].pc = "sleep"
  /\ worker' = [worker EXCEPT ![w].pc = "claim2"]
  /\ UNCHANGED <<now, migration_jobs, migration_progress, scan_queue,
                 bunny_file_map, migration_logs, crawler, ops, ghost>>

\* Line 229: update({status: 'completed'}).eq('id', job.id); break.
MarkCompletedM(w) ==
  /\ worker[w].pc = "complete"
  /\ migration_jobs' = UpdateJobStatus(migration_jobs, worker[w].job, "completed")
  /\ worker' = [worker EXCEPT ![w].pc = "exited"]
  /\ UNCHANGED <<now, migration_progress, scan_queue, bunny_file_map,
                 migration_logs, crawler, ops, ghost>>

\* ------------------------------------------------------------ migrateOne
\* One task per file of the batch (migrate-files.js:146).  phase is the await
\* the task is suspended at, attempt the loop counter of line 148:
\*   queued    waiting for a p-limit slot
\*   transfer  download and upload (155-164)     backoff  sleep(backoff) (200)
\*   logOk, finOk, incOk         logResult, finalizeFile, incProgress (166-176)
\*   logFail, finFail, incFail   the same three calls of the final catch (183-194)
\*   ok, failed                  returned at 179 / at 196
\* uploaded records that some attempt of the task got through its upload.

InBatch(w) == worker[w].pc \in {"batch1", "batch2"}
Task(w, f) == worker[w].task[f]
TaskAt(w, f, phases) ==
  /\ InBatch(w)
  /\ f \in worker[w].batch
  /\ Task(w, f).phase \in phases

SetPhase(w, f, phase) == [worker EXCEPT ![w].task[f].phase = phase]

\* Rows a transaction has locked make a plain UPDATE of them wait.
FileUnlocked(f) == f \notin LockedFiles

\* Lines 155-164 went through: the file is at the destination.
TransferOk(w, f) ==
  /\ TaskAt(w, f, {"transfer"})
  /\ worker' = [worker EXCEPT ![w].task[f].phase = "logOk",
                              ![w].task[f].uploaded = TRUE]
  /\ UNCHANGED <<now, migration_jobs, migration_progress, scan_queue,
                 bunny_file_map, migration_logs, crawler, ops, ghost>>

\* Variant: every attempt is taken for the last.
FinalAtOnce(attempt) == attempt >= 1

\* Line 181: const final = attempt >= MAX_RETRIES.
Final(attempt) == attempt >= MAX_RETRIES

\* Variant: a failed transfer rejects the task and with it the batch.
TransferAbort(w, f) ==
  /\ TaskAt(w, f, {"transfer"})
  /\ worker' = [worker EXCEPT ![w].pc = "crashed"]
  /\ UNCHANGED <<now, migration_jobs, migration_progress, scan_queue,
                 bunny_file_map, migration_logs, crawler, ops, ghost>>

\* Lines 155-164 threw: the catch of line 180.
TransferFail(w, f) ==
  /\ TaskAt(w, f, {"transfer"})
  /\ worker' = SetPhase(w, f, IF Final(Task(w, f).attempt) THEN "logFail" ELSE "backoff")
  /\ UNCHANGED <<now, migration_jobs, migration_progress, scan_queue,
                 bunny_file_map, migration_logs, crawler, ops, ghost>>

\* Lines 198-200 and 151-152: sleep(backoff), then the next attempt.
Backoff(w, f) ==
  /\ TaskAt(w, f, {"backoff"})
  /\ Task(w, f).attempt < MAX_RETRIES
  /\ worker' = [worker EXCEPT ![w].task[f].phase = "transfer",
                              ![w].task[f].attempt = @ + 1]
  /\ UNCHANGED <<now, migration_jobs, migration_progress, scan_queue,
                 bunny_file_map, migration_logs, crawler, ops, ghost>>

\* logResult (62): one row appended to migration_logs.
LogRow(file_id, job_id, status, attempts) ==
  [file_id |-> file_id, job_id |-> job_id, status |-> status, attempts |-> attempts]

LogResult(w, f) ==
  /\ TaskAt(w, f, {"logOk", "logFail"})
  /\ migration_logs' = migration_logs (+) SetToBag({
        LogRow(f, worker[w].job,
               IF Task(w, f).phase = "logOk" THEN "success" ELSE "failed",
               Task(w, f).attempt)})
  /\ worker' = SetPhase(w, f, IF Task(w, f).phase = "logOk" THEN "finOk" ELSE "finFail")
  /\ UNCHANGED <<now, migration_jobs, migration_progress, scan_queue,
                 bunny_file_map, crawler, ops, ghost>>

\* finalizeFile (82): status and cleared claim metadata, by id.
FinalizeFile(w, f) ==
  /\ TaskAt(w, f, {"finOk", "finFail"})
  /\ FileUnlocked(f)
  /\ bunny_file_map' = UpdateFileStatus(bunny_file_map, {f},
        IF Task(w, f).phase = "finOk" THEN "migrated" ELSE "failed")
  /\ worker' = SetPhase(w, f, IF Task(w, f).phase = "finOk" THEN "incOk" ELSE "incFail")
  /\ UNCHANGED <<now, migration_jobs, migration_progress, scan_queue,
                 migration_logs, crawler, ops, ghost>>

\* incProgress (95): the delta it passes to increment_progress.
ProgressDeltaM(migrated, failed) ==
  [ZeroDelta EXCEPT !.migrated_files = migrated, !.failed_files = failed]

\* The deltas issued so far against each job, counter by counter.
Issue(job_id, delta) ==
  [ghost EXCEPT !.issued[job_id] = [c \in Counters |-> @[c] + delta[c]]]

\* p-limit: a task that returns frees its slot for the first waiting one.
Dequeue(bfm, task) ==
  LET waiting == {g \in DOMAIN task : task[g].phase = "queued"}
      next == FirstByPath(bfm, waiting, 1)
  IN [g \in DOMAIN task |-> IF g \in next THEN StartTask ELSE task[g]]

IncProgress(w, f) ==
  LET ok == Task(w, f).phase = "incOk"
      delta == IF ok THEN ProgressDeltaM(1, 0) ELSE ProgressDeltaM(0, 1)
  IN /\ TaskAt(w, f, {"incOk", "incFail"})
     /\ migration_progress' = IncrementProgress(migration_progress, worker[w].job, delta)
     /\ ghost' = Issue(worker[w].job, delta)
     /\ worker' = [worker EXCEPT ![w].task =
            Dequeue(bunny_file_map,
                    [@ EXCEPT ![f].phase = IF ok THEN "ok" ELSE "failed"])]
     /\ UNCHANGED <<now, migration_jobs, scan_queue, bunny_file_map,
                    migration_logs, crawler, ops>>

\* Variant: the loop goes on without awaiting the tasks.
BatchDoneEarly(w) ==
  /\ InBatch(w)
  /\ worker' = [worker EXCEPT ![w].pc = "poll", ![w].batch = {}, ![w].task = << >>]
  /\ UNCHANGED <<now, migration_jobs, migration_progress, scan_queue,
                 bunny_file_map, migration_logs, crawler, ops, ghost>>

\* Promise.all (232, 236) resolves once every task has returned; the loop
\* goes back to the status poll of line 219.
BatchDone(w) ==
  /\ InBatch(w)
  /\ \A f \in worker[w].batch : Task(w, f).phase \in {"ok", "failed"}
  /\ worker' = [worker EXCEPT ![w].pc = "poll", ![w].batch = {}, ![w].task = << >>]
  /\ UNCHANGED <<now, migration_jobs, migration_progress, scan_queue,
                 bunny_file_map, migration_logs, crawler, ops, ghost>>

\* The process is killed (no handler runs).  A claim transaction runs in the
\* store and commits whether or not its caller is still there: the end of a
\* process is taken after the commit.
CrashM(w) ==
  /\ ops < MaxEvents
  /\ worker[w].pc \notin {"off", "start", "txn1", "txn2", "exited", "crashed"}
  /\ worker' = [worker EXCEPT ![w].pc = "crashed"]
  /\ ops' = ops + 1
  /\ UNCHANGED <<now, migration_jobs, migration_progress, scan_queue,
                 bunny_file_map, migration_logs, crawler, ghost>>

\* A store call of the worker fails.  getJob, claimBatch, logResult,
\* finalizeFile and incProgress throw on error (44, 57, 79, 92, 109).
\* In the loop (219, 223, 226) the error leaves run() and reaches the catch
\* of line 240.  The completion update (229) does not look at its error: the
\* status is not written and the loop is left as if it had been.
StoreFaultM(w) ==
  /\ ops < MaxEvents
  /\ worker[w].pc \in {"poll", "claim1", "claim2", "complete"}
  /\ worker' = [worker EXCEPT ![w].pc = IF worker[w].pc = "complete" THEN "exited"
                                        ELSE "fatal"]
  /\ ops' = ops + 1
  /\ UNCHANGED <<now, migration_jobs, migration_progress, scan_queue,
                 bunny_file_map, migration_logs, crawler, ghost>>

\* Inside migrateOne the three calls after the upload (166-176) are within
\* the try of line 153: their error is caught at 180 like a transfer error,
\* so the attempt counts as failed (retry, or the final branch).  The three
\* calls of the final branch (183-194) are inside the catch: their error
\* rejects the task, Promise.all rejects and run() throws.
StoreFaultTask(w, f) ==
  /\ ops < MaxEvents
  /\ TaskAt(w, f, {"logOk", "finOk", "incOk", "logFail", "finFail", "incFail"})
  /\ worker' =
       IF Task(w, f).phase \in {"logOk", "finOk", "incOk"}
         THEN SetPhase(w, f, IF Final(Task(w, f).attempt) THEN "logFail" ELSE "backoff")
         ELSE [worker EXCEPT ![w].pc = "fatal"]
  /\ ops' = ops + 1
  /\ UNCHANGED <<now, migration_jobs, migration_progress, scan_queue,
                 bunny_file_map, migration_logs, crawler, ghost>>

\* Line 240: run().catch(e => { console.error(e); process.exit(1); }).
\* Nothing is written; the tasks still in flight end with the process.
FatalExitM(w) ==
  /\ worker[w].pc = "fatal"
  /\ worker' = [worker EXCEPT ![w].pc = "exited"]
  /\ UNCHANGED <<now, migration_jobs, migration_progress, scan_queue,
                 bunny_file_map, migration_logs, crawler, ops, ghost>>

\* ------------------------------------------------------ control surface
\* control.js.  Every request is one UPDATE or one rpc.

FileRows == {i \in DOMAIN bunny_file_map : ~bunny_file_map[i].is_dir}

\* A row set back to pending starts a new pending period.
NewPeriod(ids) ==
  [ghost EXCEPT !.fileGrants = [f \in RowIds |-> IF f \in ids THEN 0 ELSE @[f]]]

\* POST /jobs/:id/status (14): running, paused or stopped, whatever the
\* status of the job is.
SetJobStatus(id, status) ==
  /\ ops < MaxEvents
  /\ id \in DOMAIN migration_jobs
  /\ status \in {"running", "paused", "stopped"}
  /\ migration_jobs' = UpdateJobStatus(migration_jobs, id, status)
  /\ ops' = ops + 1
  /\ UNCHANGED <<now, migration_progress, scan_queue, bunny_file_map,
                 migration_logs, crawler, worker, ghost>>

\* POST /files/:id/retry (29).
RetryFile(id) ==
  /\ ops < MaxEvents
  /\ id \in DOMAIN bunny_file_map
  /\ FileUnlocked(id)
  /\ bunny_file_map' = UpdateFileStatus(bunny_file_map, {id}, "pending")
  /\ ghost' = NewPeriod({id})
  /\ ops' = ops + 1
  /\ UNCHANGED <<now, migration_jobs, migration_progress, scan_queue,
                 migration_logs, crawler, worker>>

\* POST /retry-bulk (121): the rows of the id list when one is given, else
\* the rows in the given status.
BulkTargets(bfm, status, ids) ==
  IF ids # {} THEN ids \cap DOMAIN bfm
  ELSE {i \in DOMAIN bfm : bfm[i].status = status}

RetryBulk(status, ids) ==
  LET targets == BulkTargets(bunny_file_map, status, ids)
  IN /\ ops < MaxEvents
     /\ \A i \in targets : FileUnlocked(i)
     /\ bunny_file_map' = UpdateFileStatus(bunny_file_map, targets, "pending")
     /\ ghost' = NewPeriod(targets)
     /\ ops' = ops + 1
     /\ UNCHANGED <<now, migration_jobs, migration_progress, scan_queue,
                    migration_logs, crawler, worker>>

\* reclaim_inprogress_to_pending(minutes_threshold): the stale-claim reaper.
\* The function is not part of db_setup.sql; it is taken from its name, its
\* callers (migrate-files.js:212, control.js:137), the listing of claims in
\* control.js:113 and the design: rows in status 'in_progress' whose
\* claimed_at is older than the threshold go back to pending.
StaleInProgress(bfm, t, minutes) ==
  {i \in DOMAIN bfm : /\ bfm[i].status = "in_progress"
                      /\ bfm[i].claimed_at # NULL
                      /\ t - bfm[i].claimed_at > minutes}

ReclaimInprogressToPending(minutes) ==
  LET stale == StaleInProgress(bunny_file_map, now, minutes)
  IN /\ \A i \in stale : FileUnlocked(i)
     /\ bunny_file_map' = UpdateFileStatus(bunny_file_map, stale, "pending")
     /\ ghost' = [NewPeriod(stale) EXCEPT !.lastReap = now]

\* POST /reclaim-inprogress (135): minutes = max(1, body.minutes ?? 30).
CtlReclaimInprogress(minutes) ==
  /\ ops < MaxEvents
  /\ ReclaimInprogressToPending(IF minutes < 1 THEN 1 ELSE minutes)
  /\ ops' = ops + 1
  /\ UNCHANGED <<now, migration_jobs, migration_progress, scan_queue,
                 migration_logs, crawler, worker>>

\* setInterval of migrate-files.js:210: every worker process whose run() got
\* past createJob reaps with a threshold of 30 minutes.
WorkerReclaim(w) ==
  /\ worker[w].pc \notin {"off", "start", "crashed"}
  /\ ReclaimInprogressToPending(RECLAIM_MINUTES)
  /\ UNCHANGED <<now, migration_jobs, migration_progress, scan_queue,
                 migration_logs, crawler, worker, ops>>

\* Time passes.
Tick(d) ==
  /\ now + d <= MaxTime
  /\ now' = now + d
  /\ UNCHANGED <<migration_jobs, migration_progress, scan_queue, bunny_file_map,
                 migration_logs, crawler, worker, ops, ghost>>

\* ---------------------------------------------------------------- crawler
\* discover-files.js.  pc is the await the process is suspended at:
\*   start  reapStale (199)            root   ensureRootQueued (200)
\*   find   findHealthyRunningJob (203)
\*   create createJob (208): the insert of the job row (53)
\*   createProgress  createJob: the insert of the progress row (67)
\*   heartbeat  heartbeat (219)        poll   getJob (222)
\*   paused sleep(2000) (223)          claim  claimNextDir (229)
\*   txn    the claim transaction holds its row lock, not committed
\*   complete  markJob('completed') (232)
\*   list   listDir (238)              insert insertFileOrDir (257)
\*   enqueue insertDir (261)           bump   bumpProgress (268)
\*   markDone markDirDone(done) (274)  markFailed markDirDone(failed) (278)
\*   fatal  markJob('failed') of run().catch (288)
\*   exited, crashed, off (not launched)
\* sig is the status a signal handler (174-191) is about to write.

IdleCrawler == [pc |-> "start", job |-> NoJob, created |-> NoJob,
                timer |-> FALSE, sel |-> {},
                idx |-> 0, filesDelta |-> 0, bytesDelta |-> 0, sig |-> "none"]

Alive(c) == crawler[c].pc \notin {"off", "exited", "crashed"}

LockedDirs ==
  UNION {crawler[c].sel : c \in {d \in Crawlers : crawler[d].pc = "txn"}}

DirUnlocked(i) == i \notin LockedDirs

\* reap_stale_jobs(_kind, minutes_threshold): the stale-job reaper.  Not part
\* of db_setup.sql; taken from its callers (discover-files.js:118,
\* control.js:156) and the design: jobs of the kind that are running with a
\* last heartbeat older than the threshold are flipped to failed.
ReapStaleJobs(jobs, kind, minutes, t) ==
  [i \in DOMAIN jobs |->
     IF /\ jobs[i].kind = kind
        /\ jobs[i].status = "running"
        /\ jobs[i].last_heartbeat # NULL
        /\ t - jobs[i].last_heartbeat > minutes
       THEN [jobs[i] EXCEPT !.status = "failed"]
       ELSE jobs[i]]

\* touch_job(_job_id): not part of db_setup.sql; taken from its caller
\* (discover-files.js:101): last_heartbeat = now() on the job's row.
TouchJob(jobs, id, t) ==
  [i \in DOMAIN jobs |-> IF i = id THEN [jobs[i] EXCEPT !.last_heartbeat = t] ELSE jobs[i]]

\* Line 199: reapStale() with STALE_MINUTES.
ReapStaleD(c) ==
  /\ crawler[c].pc = "start"
  /\ migration_jobs' = ReapStaleJobs(migration_jobs, "discover", STALE_MINUTES, now)
  /\ crawler' = [crawler EXCEPT ![c].pc = "root"]
  /\ UNCHANGED <<now, migration_progress, scan_queue, bunny_file_map,
                 migration_logs, worker, ops, ghost>>

\* ensureRootQueued (47): insertDir('/', null).
EnsureRootQueued(c) ==
  /\ crawler[c].pc = "root"
  /\ scan_queue' = InsertDir(scan_queue, "/", "")
  /\ crawler' = [crawler EXCEPT ![c].pc = "find"]
  /\ UNCHANGED <<now, migration_jobs, migration_progress, bunny_file_map,
                 migration_logs, worker, ops, ghost>>

\* findHealthyRunningJob (128): the discover job in status running created
\* last, when its heartbeat (or creation) is at most STALE_MINUTES old;
\* NoJob otherwise.
FindHealthyRunningJob(jobs, t) ==
  LET running == {i \in DOMAIN jobs : jobs[i].kind = "discover" /\ jobs[i].status = "running"}
  IN IF running = {} THEN NoJob
     ELSE LET j == CHOOSE i \in running : \A k \in running : k <= i
              last == IF jobs[j].last_heartbeat # NULL THEN jobs[j].last_heartbeat
                      ELSE jobs[j].created_at
          IN IF t - last <= STALE_MINUTES THEN j ELSE NoJob

\* Lines 203-209 and 214: a healthy job is reused, and the heartbeat timer
\* starts; with none the process goes on to createJob.
FindJobD(c) ==
  LET healthy == FindHealthyRunningJob(migration_jobs, now)
  IN /\ crawler[c].pc = "find"
     /\ crawler' = [crawler EXCEPT
           ![c].pc = IF healthy # NoJob THEN "heartbeat" ELSE "create",
           ![c].job = healthy,
           ![c].timer = (healthy # NoJob /\ crawler[c].sig = "none")]
     /\ UNCHANGED <<now, migration_jobs, migration_progress, scan_queue,
                    bunny_file_map, migration_logs, worker, ops, ghost>>

\* createJob (52), the first insert: a discover job, running, heartbeat now.
\* The row is in `data`; CURRENT_JOB is assigned when createJob returns.
DiscoverJobRow == [kind |-> "discover", status |-> "running",
                   last_heartbeat |-> now, created_at |-> now]

CreateJobD(c) ==
  /\ crawler[c].pc = "create"
  /\ migration_jobs' = Append(migration_jobs, DiscoverJobRow)
  /\ crawler' = [crawler EXCEPT ![c].pc = "createProgress",
                                ![c].created = Len(migration_jobs) + 1]
  /\ UNCHANGED <<now, migration_progress, scan_queue, bunny_file_map,
                 migration_logs, worker, ops, ghost>>

\* createJob, the second insert (67), a duplicate being swallowed; then
\* lines 208 and 214: CURRENT_JOB is assigned and the heartbeat timer starts.
CreateProgressD(c) ==
  /\ crawler[c].pc = "createProgress"
  /\ migration_progress' = InsertProgress(migration_progress, crawler[c].created)
  /\ crawler' = [crawler EXCEPT ![c].pc = "heartbeat",
                                ![c].job = crawler[c].created,
                                ![c].created = NoJob,
                                ![c].timer = (crawler[c].sig = "none")]
  /\ UNCHANGED <<now, migration_jobs, scan_queue, bunny_file_map,
                 migration_logs, worker, ops, ghost>>

\* Line 219: heartbeat() at the top of the loop.
HeartbeatD(c) ==
  /\ crawler[c].pc = "heartbeat"
  /\ migration_jobs' = TouchJob(migration_jobs, crawler[c].job, now)
  /\ crawler' = [crawler EXCEPT ![c].pc = "poll"]
  /\ UNCHANGED <<now, migration_progress, scan_queue, bunny_file_map,
                 migration_logs, worker, ops, ghost>>

\* The interval timer of startHeartbeat (107), every HEARTBEAT_MS.
TimerHeartbeat(c) ==
  /\ Alive(c)
  /\ crawler[c].timer
  /\ migration_jobs' = TouchJob(migration_jobs, crawler[c].job, now)
  /\ UNCHANGED <<now, migration_progress, scan_queue, bunny_file_map,
                 migration_logs, crawler, worker, ops, ghost>>

\* Lines 222-227: the status poll and its three ways on.
AfterPollD(status) ==
  IF status = "paused" THEN "paused"
  ELSE IF status \in {"stopped", "failed", "completed"} THEN "exited"
  ELSE "claim"

GetJobD(c) ==
  LET next == AfterPollD(JobStatus(crawler[c].job))
  IN /\ crawler[c].pc = "poll"
     /\ crawler' = [crawler EXCEPT ![c].pc = next,
                                   ![c].timer = IF next = "exited" THEN FALSE ELSE @]
     /\ UNCHANGED <<now, migration_jobs, migration_progress, scan_queue,
                    bunny_file_map, migration_logs, worker, ops, ghost>>

\* Line 223: sleep(2000); continue.
PausedSleepD(c) ==
  /\ crawler[c].pc = "paused"
  /\ crawler' = [crawler EXCEPT ![c].pc = "heartbeat"]
  /\ UNCHANGED <<now, migration_jobs, migration_progress, scan_queue,
                 bunny_file_map, migration_logs, worker, ops, ghost>>

\* claimNextDir (147), first half: claim_next_dir selects and locks its row.
ClaimDirSelect(c) ==
  /\ crawler[c].pc = "claim"
  /\ crawler' = [crawler EXCEPT ![c].pc = "txn",
                                ![c].sel = SelectQueuedDir(scan_queue, LockedDirs)]
  /\ UNCHANGED <<now, migration_jobs, migration_progress, scan_queue,
                 bunny_file_map, migration_logs, worker, ops, ghost>>

\* Lines 230-236: no claim ends the crawl, a claim is listed.
AfterClaimD(sel) == IF sel = {} THEN "complete" ELSE "list"

\* claimNextDir, second half: the UPDATE is applied, the transaction commits
\* and the row is returned.
ClaimDirCommit(c) ==
  /\ crawler[c].pc = "txn"
  /\ scan_queue' = UpdateClaimedDir(scan_queue, crawler[c].sel, now)
  /\ crawler' = [crawler EXCEPT ![c].pc = AfterClaimD(crawler[c].sel)]
  /\ ghost' = [ghost EXCEPT
        !.dirGrants = [i \in RowIds |-> IF i \in crawler[c].sel THEN @[i] + 1 ELSE @[i]],
        !.emptyDirClaims = [@ EXCEPT ![c] = IF crawler[c].sel = {} THEN @ + 1 ELSE 0]]
  /\ UNCHANGED <<now, migration_jobs, migration_progress, bunny_file_map,
                 migration_logs, worker, ops>>

\* markJob (87): the status of CURRENT_JOB, by id.
MarkJob(jobs, job, status) ==
  IF job = NoJob THEN jobs ELSE UpdateJobStatus(jobs, job, status)

\* Lines 232-233 and 282: markJob('completed'); break; stopHeartbeat().
MarkCompletedD(c) ==
  /\ crawler[c].pc = "complete"
  /\ migration_jobs' = MarkJob(migration_jobs, crawler[c].job, "completed")
  /\ crawler' = [crawler EXCEPT ![c].pc = "exited", ![c].timer = FALSE]
  /\ UNCHANGED <<now, migration_progress, scan_queue, bunny_file_map,
                 migration_logs, worker, ops, ghost>>

\* ------------------------------------------------- listing one directory
\* Lines 236-279.

ClaimedDir(c) == CHOOSE i \in crawler[c].sel : TRUE
ClaimedPath(c) == scan_queue[ClaimedDir(c)].path
Items(c) == ListDir(ClaimedPath(c))
Item(c) == Items(c)[crawler[c].idx]

\* Line 244: `${path}${item.ObjectName}${isDir ? '/' : ''}`.
ItemPath(path, item) ==
  path \o item.ObjectName \o (IF item.IsDirectory THEN "/" ELSE "")

\* Lines 246-254: the inventory row of a child; files and directories alike
\* are inserted with status 'pending'.
Entry(path, item) ==
  [path |-> ItemPath(path, item), is_dir |-> item.IsDirectory,
   parent_path |-> path,
   size |-> IF item.IsDirectory THEN NULL ELSE item.Length,
   status |-> "pending", claimed_at |-> NULL, claimed_by |-> NULL]

\* Where the for loop of line 242 stands after item idx: at the next item,
\* or at bumpProgress when there is none.
AfterItem(c) ==
  IF crawler[c].idx < Len(Items(c)) THEN "insert" ELSE "bump"

\* listDir (238) answered.
ListDirOk(c) ==
  /\ crawler[c].pc = "list"
  /\ crawler' = [crawler EXCEPT
        ![c].pc = IF Len(Items(c)) = 0 THEN "bump" ELSE "insert",
        ![c].idx = 1, ![c].filesDelta = 0, ![c].bytesDelta = 0]
  /\ UNCHANGED <<now, migration_jobs, migration_progress, scan_queue,
                 bunny_file_map, migration_logs, worker, ops, ghost>>

\* listDir threw: the catch of line 276.
\* Variant: a failed listing is rethrown to run().catch.
ListDirAbort(c) ==
  /\ crawler[c].pc = "list"
  /\ crawler' = [crawler EXCEPT ![c].pc = "fatal"]
  /\ UNCHANGED <<now, migration_jobs, migration_progress, scan_queue,
                 bunny_file_map, migration_logs, worker, ops, ghost>>

ListDirFail(c) ==
  /\ crawler[c].pc = "list"
  /\ crawler' = [crawler EXCEPT ![c].pc = "markFailed"]
  /\ UNCHANGED <<now, migration_jobs, migration_progress, scan_queue,
                 bunny_file_map, migration_logs, worker, ops, ghost>>

\* Lines 257-265: insertFileOrDir(entry); a file is counted, a directory
\* goes on to insertDir.
InsertEntry(c) ==
  LET item == Item(c)
  IN /\ crawler[c].pc = "insert"
     /\ bunny_file_map' = InsertFileOrDir(bunny_file_map, Entry(ClaimedPath(c), item))
     /\ crawler' = [crawler EXCEPT
           ![c].pc = IF item.IsDirectory THEN "enqueue" ELSE AfterItem(c),
           ![c].idx = IF item.IsDirectory THEN @ ELSE @ + 1,
           ![c].filesDelta = IF item.IsDirectory THEN @ ELSE @ + 1,
           ![c].bytesDelta = IF item.IsDirectory THEN @ ELSE @ + item.Length]
     /\ UNCHANGED <<now, migration_jobs, migration_progress, scan_queue,
                    migration_logs, worker, ops, ghost>>

\* Line 261: insertDir(itemPath, path).
EnqueueDir(c) ==
  /\ crawler[c].pc = "enqueue"
  /\ scan_queue' = InsertDir(scan_queue, ItemPath(ClaimedPath(c), Item(c)), ClaimedPath(c))
  /\ crawler' = [crawler EXCEPT ![c].pc = AfterItem(c), ![c].idx = @ + 1]
  /\ UNCHANGED <<now, migration_jobs, migration_progress, bunny_file_map,
                 migration_logs, worker, ops, ghost>>

\* Variant: the listed directory itself is not counted.
ProgressDeltaFilesOnly(files, bytes) ==
  [ZeroDelta EXCEPT !.total_files = files, !.total_bytes = bytes]

\* Lines 268-272: the delta bumpProgress passes to increment_progress.
ProgressDeltaD(files, bytes) ==
  [ZeroDelta EXCEPT !.total_files = files, !.total_bytes = bytes, !.scanned_dirs = 1]

BumpProgress(c) ==
  LET delta == ProgressDeltaD(crawler[c].filesDelta, crawler[c].bytesDelta)
  IN /\ crawler[c].pc = "bump"
     /\ migration_progress' = IncrementProgress(migration_progress, crawler[c].job, delta)
     /\ ghost' = Issue(crawler[c].job, delta)
     /\ crawler' = [crawler EXCEPT ![c].pc = "markDone"]
     /\ UNCHANGED <<now, migration_jobs, scan_queue, bunny_file_map,
                    migration_logs, worker, ops>>

\* markDirDone (153): the status of the frontier row, by id.
UpdateDirStatus(sq, ids, status) ==
  [i \in DOMAIN sq |-> IF i \in ids THEN [sq[i] EXCEPT !.status = status] ELSE sq[i]]

\* Line 274 (done) and line 278 (failed); the loop goes back to line 219.
MarkDirDone(c) ==
  /\ crawler[c].pc \in {"markDone", "markFailed"}
  /\ \A i \in crawler[c].sel : DirUnlocked(i)
  /\ scan_queue' = UpdateDirStatus(scan_queue, crawler[c].sel,
                       IF crawler[c].pc = "markDone" THEN "done" ELSE "failed")
  /\ crawler' = [crawler EXCEPT ![c].pc = "heartbeat", ![c].sel = {},
                                ![c].idx = 0, ![c].filesDelta = 0, ![c].bytesDelta = 0]
  /\ UNCHANGED <<now, migration_jobs, migration_progress, bunny_file_map,
                 migration_logs, worker, ops, ghost>>

\* ------------------------------------------- signals, faults, the reapers

\* hookProcessSignals (173): SIGINT and SIGTERM write 'stopped',
\* uncaughtException writes 'failed'.
HandlerStatus(sig) == IF sig = "uncaughtException" THEN "failed" ELSE "stopped"

\* A handler starts: stopHeartbeat(), then markJob, which returns at once
\* without a CURRENT_JOB (88) and the process exits; with one, the update is
\* awaited while run() goes on.
Signal(c, sig) ==
  /\ ops < MaxEvents
  /\ Alive(c)
  /\ crawler[c].sig = "none"
  /\ ops' = ops + 1
  /\ crawler' = [crawler EXCEPT
        ![c].timer = FALSE,
        ![c].sig = IF crawler[c].job = NoJob THEN "none" ELSE HandlerStatus(sig),
        ![c].pc = IF crawler[c].job = NoJob THEN "exited" ELSE @]
  /\ UNCHANGED <<now, migration_jobs, migration_progress, scan_queue,
                 bunny_file_map, migration_logs, worker, ghost>>

\* The handler's markJob is applied, then process.exit.  (A claim
\* transaction runs in the store and commits whether or not its caller is
\* still there: the end of a process is taken after the commit.)
SignalMarkJob(c) ==
  /\ Alive(c)
  /\ crawler[c].pc # "txn"
  /\ crawler[c].sig # "none"
  /\ migration_jobs' = MarkJob(migration_jobs, crawler[c].job, crawler[c].sig)
  /\ crawler' = [crawler EXCEPT ![c].pc = "exited", ![c].sig = "none"]
  /\ UNCHANGED <<now, migration_progress, scan_queue, bunny_file_map,
                 migration_logs, worker, ops, ghost>>

\* The process is killed: no handler runs.
CrashD(c) ==
  /\ ops < MaxEvents
  /\ Alive(c)
  /\ crawler[c].pc \notin {"start", "txn"}
  /\ crawler' = [crawler EXCEPT ![c].pc = "crashed", ![c].timer = FALSE,
                                ![c].sig = "none"]
  /\ ops' = ops + 1
  /\ UNCHANGED <<now, migration_jobs, migration_progress, scan_queue,
                 bunny_file_map, migration_logs, worker, ghost>>

\* POST /jobs/reap-stale (154).
CtlReapStale(kind, minutes) ==
  /\ ops < MaxEvents
  /\ migration_jobs' = ReapStaleJobs(migration_jobs, kind, minutes, now)
  /\ ops' = ops + 1
  /\ UNCHANGED <<now, migration_progress, scan_queue, bunny_file_map,
                 migration_logs, crawler, worker, ghost>>

\* reclaim_dirs(minutes_threshold): not part of db_setup.sql; taken from its
\* caller (control.js:146) and the design: frontier rows claimed for longer
\* than the threshold go back to queued.
StaleClaimedDirs(sq, t, minutes) ==
  {i \in DOMAIN sq : /\ sq[i].status = "claimed"
                     /\ sq[i].claimed_at # NULL
                     /\ t - sq[i].claimed_at > minutes}

\* POST /reclaim-dirs (144): minutes = max(1, body.minutes ?? 30).
CtlReclaimDirs(minutes) ==
  LET stale == StaleClaimedDirs(scan_queue, now, IF minutes < 1 THEN 1 ELSE minutes)
  IN /\ ops < MaxEvents
     /\ \A i \in stale : DirUnlocked(i)
     /\ scan_queue' = UpdateDirStatus(scan_queue, stale, "queued")
     /\ ghost' = [ghost EXCEPT
           !.dirGrants = [i \in RowIds |-> IF i \in stale THEN 0 ELSE @[i]]]
     /\ ops' = ops + 1
     /\ UNCHANGED <<now, migration_jobs, migration_progress, bunny_file_map,
                    migration_logs, crawler, worker>>

\* A store call of run() outside the try of line 237 raises (ensureRootQueued,
\* findHealthyRunningJob, either insert of createJob, getJob, claimNextDir,
\* markDirDone of the
\* catch): run().catch (285) stops the heartbeat and calls markJob('failed').
\* Inside the try (insertFileOrDir, insertDir, bumpProgress, markDirDone) the
\* catch of line 276 takes it like a failed listing.
AfterFault(pc) ==
  IF pc \in {"insert", "enqueue", "bump", "markDone"} THEN "markFailed" ELSE "fatal"

StoreFaultD(c) ==
  /\ ops < MaxEvents
  /\ crawler[c].pc \in {"root", "find", "create", "createProgress", "poll",
                        "claim", "markFailed",
                        "insert", "enqueue", "bump", "markDone"}
  /\ crawler' = [crawler EXCEPT
        ![c].pc = AfterFault(crawler[c].pc),
        ![c].timer = IF AfterFault(crawler[c].pc) = "fatal" THEN FALSE ELSE @]
  /\ ops' = ops + 1
  /\ UNCHANGED <<now, migration_jobs, migration_progress, scan_queue,
                 bunny_file_map, migration_logs, worker, ghost>>

\* Lines 288-289: markJob('failed'); process.exit(1).
FatalMarkJob(c) ==
  /\ crawler[c].pc = "fatal"
  /\ migration_jobs' = MarkJob(migration_jobs, crawler[c].job, "failed")
  /\ crawler' = [crawler EXCEPT ![c].pc = "exited", ![c].sig = "none"]
  /\ UNCHANGED <<now, migration_progress, scan_queue, bunny_file_map,
                 migration_logs, worker, ops, ghost>>

\* ------------------------------------------------------- specifications

GhostInit ==
  [fileGrants |-> [f \in RowIds |-> 0],
   fileClaimedAt |-> [f \in RowIds |-> NULL],
   dirGrants |-> [i \in RowIds |-> 0],
   issued |-> [j \in JobIds |-> ZeroDelta],
   emptyClaims |-> [w \in Workers |-> 0],
   emptyDirClaims |-> [c \in Crawlers |-> 0],
   lastReap |-> NULL,
   call |-> [batch_size |-> NULL, before |-> << >>, returned |-> {}]]

\* Discovery: an empty store, every crawler process launched, no worker.
InitD ==
  /\ now = 0
  /\ migration_jobs = << >>
  /\ migration_progress = << >>
  /\ scan_queue = << >>
  /\ bunny_file_map = << >>
  /\ migration_logs = EmptyBag
  /\ crawler = [c \in Crawlers |-> IdleCrawler]
  /\ worker = [w \in Workers |-> [IdleWorker EXCEPT !.pc = "off"]]
  /\ ops = 0
  /\ ghost = GhostInit

\* Migration: the store as a finished crawl of the hierarchy leaves it (one
\* completed discover job, every directory done, every child inventoried),
\* every worker process launched, no crawler left.
RECURSIVE InsertItems(_, _, _)
InsertItems(bfm, path, items) ==
  IF items = << >> THEN bfm
  ELSE InsertItems(InsertFileOrDir(bfm, Entry(path, Head(items))), path, Tail(items))

CrawledInventory ==
  InsertItems(InsertItems(<< >>, "/", ListDir("/")), "/b/", ListDir("/b/"))

CrawledFrontier ==
  UpdateDirStatus(UpdateClaimedDir(InsertDir(InsertDir(<< >>, "/", ""), "/b/", "/"),
                                   {1, 2}, 0),
                  {1, 2}, "done")

CrawledProgress ==
  IncrementProgress(IncrementProgress(<<ProgressRow(1)>>, 1, ProgressDeltaD(1, 10)),
                    1, ProgressDeltaD(1, 20))

InitM ==
  /\ now = 0
  /\ migration_jobs = << [kind |-> "discover", status |-> "completed",
                          last_heartbeat |-> 0, created_at |-> 0] >>
  /\ migration_progress = CrawledProgress
  /\ scan_queue = CrawledFrontier
  /\ bunny_file_map = CrawledInventory
  /\ migration_logs = EmptyBag
  /\ crawler = [c \in Crawlers |->
                  IF c = 1 THEN [IdleCrawler EXCEPT !.pc = "exited", !.job = 1]
                  ELSE [IdleCrawler EXCEPT !.pc = "off"]]
  /\ worker = [w \in Workers |-> IdleWorker]
  /\ ops = 0
  /\ ghost = [GhostInit EXCEPT
                !.dirGrants = [i \in RowIds |-> IF i \in {1, 2} THEN 1 ELSE 0],
                !.issued[1] = [c \in Counters |-> CrawledProgress[1][c]]]

CrawlerStep(c) ==
  \/ ReapStaleD(c) \/ EnsureRootQueued(c) \/ FindJobD(c)
  \/ CreateJobD(c) \/ CreateProgressD(c)
  \/ HeartbeatD(c) \/ TimerHeartbeat(c) \/ GetJobD(c) \/ PausedSleepD(c)
  \/ ClaimDirSelect(c) \/ ClaimDirCommit(c) \/ MarkCompletedD(c)
  \/ ListDirOk(c) \/ ListDirFail(c) \/ InsertEntry(c) \/ EnqueueDir(c)
  \/ BumpProgress(c) \/ MarkDirDone(c)
  \/ SignalMarkJob(c) \/ FatalMarkJob(c)

WorkerStep(w) ==
  \/ CreateJobM(w) \/ GetJobM(w) \/ PausedSleepM(w)
  \/ ClaimBatchSelect(w) \/ ClaimBatchCommit(w) \/ SleepM(w) \/ MarkCompletedM(w)
  \/ BatchDone(w)
  \/ \E f \in RowIds :
       \/ TransferOk(w, f) \/ TransferFail(w, f) \/ Backoff(w, f)
       \/ LogResult(w, f) \/ FinalizeFile(w, f) \/ IncProgress(w, f)

\* What the operator asks of the control surface: a status for the job of a
\* process that is at work, a retry of files.
ActiveJobs ==
  {crawler[c].job : c \in {d \in Crawlers : Alive(d)}}
    \cup {worker[w].job : w \in {v \in Workers : worker[v].pc \notin {"off", "exited", "crashed"}}}

SetAnyJobStatus ==
  \E id \in ActiveJobs, status \in {"running", "paused", "stopped"} : SetJobStatus(id, status)

Retry ==
  \/ \E id \in FileRows : RetryFile(id)
  \/ \E id \in FileRows : RetryBulk("", {id})
  \/ RetryBulk("failed", {})

\* A signal, a kill or a failing store call.
CrawlerEnv(c) ==
  \/ \E sig \in {"SIGINT", "SIGTERM", "uncaughtException"} : Signal(c, sig)
  \/ CrashD(c)
  \/ StoreFaultD(c)

\* More than the staleness threshold passes.  The heartbeat timer fires
\* every HEARTBEAT_MS, several times a minute: a job whose timer runs in a
\* live process has been touched within the minute that ends.
MaxTimeD == 3

Touched(jobs, t) ==
  LET live == {crawler[c].job : c \in {d \in Crawlers : Alive(d) /\ crawler[d].timer}}
  IN [i \in DOMAIN jobs |->
        IF i \in live /\ HEARTBEAT_MS < 60000
          THEN [jobs[i] EXCEPT !.last_heartbeat = t] ELSE jobs[i]]

TickD ==
  /\ now + STALE_MINUTES + 1 <= MaxTimeD
  /\ now' = now + STALE_MINUTES + 1
  /\ migration_jobs' = Touched(migration_jobs, now')
  /\ UNCHANGED <<migration_progress, scan_queue, bunny_file_map,
                 migration_logs, crawler, worker, ops, ghost>>

\* More than the reclaim threshold passes.
TickM == Tick(RECLAIM_MINUTES + 1)

\* Discovery under signals, kills, faults and the operator, the clock standing.
NextD ==
  \/ \E c \in Crawlers : CrawlerStep(c)
  \/ \E c \in Crawlers : CrawlerEnv(c)
  \/ SetAnyJobStatus

SpecD == InitD /\ [][NextD]_vars

\* Migration under kills and the operator, the clock standing.
NextM ==
  \/ \E w \in Workers : WorkerStep(w)
  \/ \E w \in Workers : CrashM(w)
  \/ SetAnyJobStatus
  \/ Retry

SpecM == InitM /\ [][NextM]_vars

\* Either phase.
Init == InitD \/ InitM
Next == NextD \/ NextM
Spec == Init /\ [][Next]_vars

\* Discovery with the clock running: the reapers of jobs and of frontier claims.
CrawlerRun(c) ==
  \/ ReapStaleD(c) \/ EnsureRootQueued(c) \/ FindJobD(c)
  \/ CreateJobD(c) \/ CreateProgressD(c)
  \/ HeartbeatD(c) \/ TimerHeartbeat(c) \/ GetJobD(c)
  \/ ClaimDirSelect(c) \/ ClaimDirCommit(c) \/ MarkCompletedD(c)
  \/ ListDirOk(c) \/ ListDirFail(c) \/ InsertEntry(c) \/ EnqueueDir(c)
  \/ BumpProgress(c) \/ MarkDirDone(c)

NextT ==
  \/ \E c \in Crawlers : CrawlerRun(c)
  \/ \E c \in Crawlers : CrashD(c)
  \/ CtlReapStale("discover", STALE_MINUTES)
  \/ CtlReclaimDirs(1)
  \/ TickD

SpecT == InitD /\ [][NextT]_vars

\* Migration with the clock running: the reaper of inventory claims.
WorkerRun(w) ==
  \/ CreateJobM(w) \/ GetJobM(w)
  \/ ClaimBatchSelect(w) \/ ClaimBatchCommit(w) \/ SleepM(w) \/ MarkCompletedM(w)
  \/ BatchDone(w)
  \/ \E f \in RowIds :
       \/ TransferOk(w, f) \/ TransferFail(w, f) \/ Backoff(w, f)
       \/ LogResult(w, f) \/ FinalizeFile(w, f) \/ IncProgress(w, f)

NextR ==
  \/ \E w \in Workers : WorkerRun(w)
  \/ \E w \in Workers : CrashM(w)
  \/ \E w \in Workers : WorkerReclaim(w)
  \/ CtlReclaimInprogress(RECLAIM_MINUTES)
  \/ TickM

SpecR == InitM /\ [][NextR]_vars

\* The loops left to run: a process that is not killed goes on from every
\* await (the store and the source answer each call, a sleep ends), so each
\* process is scheduled fairly.  The operator may set a status; no signal,
\* kill or store fault; listings and transfers may fail.
CrawlerLoop(c) == CrawlerRun(c) \/ PausedSleepD(c)

NextL ==
  \/ \E c \in Crawlers : CrawlerLoop(c)
  \/ \E w \in Workers : WorkerStep(w)
  \/ SetAnyJobStatus

FairL ==
  /\ \A c \in Crawlers : WF_vars(CrawlerLoop(c))
  /\ \A w \in Workers : WF_vars(WorkerStep(w))

SpecL == Init /\ [][NextL]_vars /\ FairL

\* Migration with store calls that fail.
NextE ==
  \/ \E w \in Workers : WorkerRun(w)
  \/ \E w \in Workers : StoreFaultM(w)
  \/ \E w \in Workers, f \in RowIds : StoreFaultTask(w, f)
  \/ \E w \in Workers : FatalExitM(w)

SpecE == InitM /\ [][NextE]_vars

\* The job reaper on migrate jobs.  The store as after a crawl, worker 1
\* killed right after its createJob at time 0 (its job is left running),
\* worker 2 launched; the clock runs, and the operator may POST
\* /jobs/reap-stale {kind: 'migrate'} with the default threshold.
InitJ ==
  /\ now = 0
  /\ migration_jobs = << [kind |-> "discover", status |-> "completed",
                          last_heartbeat |-> 0, created_at |-> 0],
                         MigrateJobRow >>
  /\ migration_progress = InsertProgress(CrawledProgress, 2)
  /\ scan_queue = CrawledFrontier
  /\ bunny_file_map = CrawledInventory
  /\ migration_logs = EmptyBag
  /\ crawler = [c \in Crawlers |->
                  IF c = 1 THEN [IdleCrawler EXCEPT !.pc = "exited", !.job = 1]
                  ELSE [IdleCrawler EXCEPT !.pc = "off"]]
  /\ worker = [w \in Workers |->
                 IF w = 1 THEN [IdleWorker EXCEPT !.pc = "crashed", !.job = 2]
                 ELSE IdleWorker]
  /\ ops = 0
  /\ ghost = [GhostInit EXCEPT
                !.dirGrants = [i \in RowIds |-> IF i \in {1, 2} THEN 1 ELSE 0],
                !.issued[1] = [c \in Counters |-> CrawledProgress[1][c]]]

NextJ ==
  \/ \E w \in Workers : WorkerRun(w)
  \/ CtlReapStale("migrate", STALE_MINUTES)
  \/ Tick(STALE_MINUTES + 1)

SpecJ == InitJ /\ [][NextJ]_vars

\* claim_files_to_migrate called on its own: the whole function
\* (db_setup.sql:127-146) in one step, no other transaction open.  The call,
\* the inventory it found and the rows it returned are kept in ghost.call.
ClaimFilesToMigrate(batch_size) ==
  LET ids == SelectPendingFiles(bunny_file_map, LockedFiles, batch_size)
  IN /\ bunny_file_map' = UpdateClaimedFiles(bunny_file_map, ids)
     /\ ghost' = [ghost EXCEPT
           !.fileGrants = [f \in RowIds |-> IF f \in ids THEN @[f] + 1 ELSE @[f]],
           !.call = [batch_size |-> batch_size, before |-> bunny_file_map,
                     returned |-> ids]]
     /\ UNCHANGED <<now, migration_jobs, migration_progress, scan_queue,
                    migration_logs, crawler, worker, ops>>

\* The inventories a finished crawl leaves, for both orders in which the
\* source may list '/' (a.txt before b/, or b/ before a.txt with b/ listed
\* by a second crawler at once), every file in any status a file can have.
ListedOrders ==
  { CrawledInventory,
    InsertItems(InsertItems(InsertItems(<< >>, "/", <<ListDir("/")[2]>>),
                            "/b/", ListDir("/b/")),
                "/", <<ListDir("/")[1]>>) }

Inventories ==
  { [i \in DOMAIN base |->
       IF base[i].is_dir THEN base[i] ELSE [base[i] EXCEPT !.status = st[i]]] :
    base \in ListedOrders,
    st \in [1..3 -> {"pending", "scanned", "migrated", "failed"}] }

InitC ==
  /\ now = 0
  /\ migration_jobs = << [kind |-> "discover", status |-> "completed",
                          last_heartbeat |-> 0, created_at |-> 0] >>
  /\ migration_progress = CrawledProgress
  /\ scan_queue = CrawledFrontier
  /\ bunny_file_map \in Inventories
  /\ migration_logs = EmptyBag
  /\ crawler = [c \in Crawlers |-> [IdleCrawler EXCEPT !.pc = "off"]]
  /\ worker = [w \in Workers |-> [IdleWorker EXCEPT !.pc = "off"]]
  /\ ops = 0
  /\ ghost = GhostInit

NextC == \E batch_size \in 0..MaxBatch : ClaimFilesToMigrate(batch_size)

SpecC == InitC /\ [][NextC]_vars

\* ================================================================ claims

\* ------------------------------------------------------------------- C1
InTxn(w) == worker[w].pc \in {"txn1", "txn2"}

\* C1: no row is handed to two claimants within one queued / pending period.
\* Every frontier entry and every inventory file has been granted at most
\* once since it last became queued / pending, and two claim transactions
\* that are open at the same time hold disjoint rows, whatever the
\* interleaving of claim_next_dir and claim_files_to_migrate calls.
NoDoubleClaim ==
  /\ \A f \in RowIds : ghost.fileGrants[f] <= 1
  /\ \A i \in RowIds : ghost.dirGrants[i] <= 1
  /\ \A w, v \in Workers :
       (w # v /\ InTxn(w) /\ InTxn(v)) => worker[w].batch \cap worker[v].batch = {}
  /\ \A c, d \in Crawlers :
       (c # d /\ crawler[c].pc = "txn" /\ crawler[d].pc = "txn")
         => crawler[c].sel \cap crawler[d].sel = {}

\* Two claim_files_to_migrate transactions are open at once: one has locked
\* pending files, the other has skipped them.
ConcurrentBatchClaims ==
  \E w, v \in Workers :
    /\ w # v /\ InTxn(w) /\ InTxn(v)
    /\ worker[w].batch # {}
    /\ \A f \in worker[w].batch : bunny_file_map[f].status = "pending"
    /\ worker[v].batch = {}

\* ------------------------------------------------------------------- C2
UniquePaths(table) ==
  \A i, j \in DOMAIN table : table[i].path = table[j].path => i = j

HasPath(table, path) == \E i \in DOMAIN table : table[i].path = path

\* A step of crawler c's run() from one of its three insert calls (not the
\* exit of the process, not a failing store).
InsertStep(c) ==
  /\ crawler[c].pc \in {"root", "insert", "enqueue"}
  /\ crawler'[c] # crawler[c]
  /\ crawler'[c].pc \notin {"exited", "crashed"}
  /\ ops' = ops

InsertedPath(c) ==
  IF crawler[c].pc = "root" THEN "/" ELSE ItemPath(ClaimedPath(c), Item(c))

DuplicateInsertStep(c) ==
  InsertStep(c) =>
    /\ crawler'[c].pc \notin {"markFailed", "fatal"}
    /\ (crawler[c].pc \in {"root", "enqueue"} /\ HasPath(scan_queue, InsertedPath(c)))
         => scan_queue' = scan_queue
    /\ (crawler[c].pc = "insert" /\ HasPath(bunny_file_map, InsertedPath(c)))
         => bunny_file_map' = bunny_file_map

\* C2: the frontier and the inventory hold at most one row per path in every
\* reachable state, and an insert of a path that exists already (by the same
\* or by another crawler) leaves the table, the status of the existing row
\* included, as it was and raises no error: run() goes on as after any insert.
OneRowPerPath ==
  /\ [](UniquePaths(scan_queue) /\ UniquePaths(bunny_file_map))
  /\ [][\A c \in Crawlers : DuplicateInsertStep(c)]_vars

\* Two crawlers are listing the same directory (the claim of the first was
\* reclaimed) and both are past its first child: the second insert of that
\* child found its row in place.
RelistedDirectory ==
  \E c, d \in Crawlers :
    /\ c # d
    /\ crawler[c].sel # {} /\ crawler[c].sel = crawler[d].sel
    /\ crawler[c].pc \in {"insert", "enqueue", "bump"} /\ crawler[c].idx >= 2
    /\ crawler[d].pc \in {"insert", "enqueue", "bump"} /\ crawler[d].idx >= 2
    /\ HasPath(bunny_file_map, "/a.txt")

\* ------------------------------------------------------------------- C3
\* The number of log rows of a job in a status.
LogCount(job_id, status) ==
  LET rows == {r \in BagToSet(migration_logs) : r.job_id = job_id /\ r.status = status}
  IN BagCardinality([r \in rows |-> migration_logs[r]])

ProgressOf(job_id) ==
  {i \in DOMAIN migration_progress : migration_progress[i].job_id = job_id}

TasksIn(w, phases) == {f \in DOMAIN worker[w].task : worker[w].task[f].phase \in phases}

FailedOnlyAtLastAttempt ==
  /\ \A r \in BagToSet(migration_logs) : r.status = "failed" => r.attempts = MAX_RETRIES
  /\ \A w \in Workers : \A f \in TasksIn(w, {"logFail", "finFail", "incFail", "failed"}) :
       worker[w].task[f].attempt = MAX_RETRIES
  /\ \A w \in Workers : \A i \in ProgressOf(worker[w].job) :
       LogCount(worker[w].job, "failed")
         = migration_progress[i].failed_files
             + Cardinality(TasksIn(w, {"finFail", "incFail"}))

FinalizeFailedStep(w, f) ==
  (/\ f \in DOMAIN worker[w].task /\ f \in DOMAIN worker'[w].task
   /\ worker[w].task[f].phase = "finFail"
   /\ worker'[w].task[f].phase = "incFail")
    => /\ bunny_file_map'[f].status = "failed"
       /\ bunny_file_map'[f].claimed_at = NULL
       /\ bunny_file_map'[f].claimed_by = NULL

\* C3: a file whose transfer fails on every attempt gets one failed log row,
\* written at attempt MAX_RETRIES and carrying attempts = MAX_RETRIES, the
\* inventory status failed with claimed_at and claimed_by cleared, and one
\* increment of failed_files: the failed log rows of a job are as many as
\* its failed_files plus the tasks between their log row and their
\* increment, and no task is in the failure branch before its last attempt.
FailedOnceAfterMaxRetries ==
  /\ []FailedOnlyAtLastAttempt
  /\ [][\A w \in Workers : \A f \in RowIds : FinalizeFailedStep(w, f)]_vars

\* A task has returned failed: its file is failed, its job counts one failure.
FileFailedTerminally ==
  \E w \in Workers : \E f \in TasksIn(w, {"failed"}) :
    /\ bunny_file_map[f].status = "failed"
    /\ \E i \in ProgressOf(worker[w].job) : migration_progress[i].failed_files = 1
    /\ LogCount(worker[w].job, "failed") = 1

\* ------------------------------------------------------------------- C4
\* C4: each counter of a job's progress row equals the sum of the deltas
\* passed to increment_progress for that job and counter (no update is lost).
ProgressIsSumOfDeltas ==
  \A i \in DOMAIN migration_progress : \A k \in Counters :
    migration_progress[i][k] = ghost.issued[migration_progress[i].job_id][k]

\* ------------------------------------------------------------------- C5
\* The step in which a process issues a claim call.
ClaimStepM(w) ==
  worker[w].pc \in {"claim1", "claim2"} /\ worker'[w].pc \in {"txn1", "txn2"}

ClaimStepD(c) == crawler[c].pc = "claim" /\ crawler'[c].pc = "txn"

\* C5: while the status of a job is paused, the process running the job
\* issues no claim call, neither claim_next_dir nor claim_files_to_migrate,
\* the worker's second claim after an empty batch and a sleep included.
NoClaimWhilePaused ==
  [][/\ \A w \in Workers : ClaimStepM(w) => JobStatus(worker[w].job) # "paused"
     /\ \A c \in Crawlers : ClaimStepD(c) => JobStatus(crawler[c].job) # "paused"]_vars

\* ------------------------------------------------------------------- C6
\* A file of the batch of a worker that was killed before finalizing it.
Orphaned(f) ==
  \E w \in Workers :
    /\ worker[w].pc = "crashed"
    /\ f \in DOMAIN worker[w].task
    /\ worker[w].task[f].phase \notin {"incOk", "incFail", "ok", "failed"}

\* A run of the stale-claim reaper (the first at this time of the clock).
ReapStep == ghost.lastReap' # ghost.lastReap

\* C6: when the stale-claim reaper runs, every file that a killed worker
\* had claimed and not finalized, and whose claim is older than the
\* threshold, is set back to pending (where a later batch claim takes it).
StaleClaimRecovered ==
  [][ReapStep =>
       \A f \in FileRows :
         (/\ Orphaned(f)
          /\ ghost.fileClaimedAt[f] # NULL
          /\ now - ghost.fileClaimedAt[f] > RECLAIM_MINUTES)
           => bunny_file_map'[f].status = "pending"]_vars

\* ------------------------------------------------------------------- C7
\* A step of a process (not a request to the control surface, a signal, a
\* kill or a store fault arriving).
ProcessStep == ops' = ops

\* C7: no step of a worker changes the status of a job that the operator
\* has stopped (no signal handler is installed in the worker, and the
\* operator is the only writer of 'stopped' on a migrate job).
StopIsKept ==
  [][ProcessStep =>
       \A j \in DOMAIN migration_jobs :
         migration_jobs[j].status = "stopped" => migration_jobs'[j].status = "stopped"]_vars

\* ------------------------------------------------------------------- C8
\* C8: no step of a crawler (markJob from its loop, from a signal handler or
\* from the fatal-error handler, the reap at start-up) changes the status
\* of a job that is completed or failed.
TerminalIsKept ==
  [][ProcessStep =>
       \A j \in DOMAIN migration_jobs :
         migration_jobs[j].status \in {"completed", "failed"}
           => migration_jobs'[j].status = migration_jobs[j].status]_vars

\* ------------------------------------------------------------------- C9
\* The step in which crawler c's loop writes 'completed' (line 232).
MarkCompletedStepD(c) ==
  /\ crawler[c].pc = "complete"
  /\ crawler'[c].pc = "exited"
  /\ crawler[c].job # NoJob
  /\ migration_jobs'[crawler[c].job].status = "completed"

\* C9: a crawler writes 'completed' only after claim_next_dir has come back
\* empty twice in a row.
CompletedAfterTwoEmptyDirClaims ==
  [][\A c \in Crawlers : MarkCompletedStepD(c) => ghost.emptyDirClaims[c] >= 2]_vars

\* ------------------------------------------------------------------ C10
BecomesCompleted(j) ==
  migration_jobs[j].status # "completed" /\ migration_jobs'[j].status = "completed"

SecondBatchStep(w) ==
  /\ (worker[w].pc # "claim2" /\ worker'[w].pc = "claim2") => worker[w].pc = "sleep"
  /\ (worker[w].pc = "batch2" /\ worker'[w].pc # "batch2")
       => \/ worker'[w].pc = "crashed"
          \/ /\ worker'[w].pc = "poll"
             /\ \A f \in worker[w].batch : worker[w].task[f].phase \in {"ok", "failed"}

\* C10: a worker writes 'completed' only after two empty batch claims in a
\* row with the sleep between them; a second claim that returns entries is
\* processed, every entry to ok or failed, and the loop goes on with the
\* status poll.
CompletedAfterTwoEmptyBatchClaims ==
  /\ [](\A w \in Workers : worker[w].pc = "complete" => ghost.emptyClaims[w] = 2)
  /\ [][/\ \A w \in Workers : SecondBatchStep(w)
        /\ \A j \in DOMAIN migration_jobs :
             BecomesCompleted(j) =>
               \E w \in Workers : /\ worker[w].job = j /\ worker[w].pc = "complete"
                                  /\ ghost.emptyClaims[w] = 2]_vars

\* The second claim of a worker returned entries and all of them are
\* processed: the batch is about to hand over to the status poll.
SecondBatchProcessed ==
  \E w \in Workers :
    /\ worker[w].pc = "batch2"
    /\ worker[w].batch # {}
    /\ \A f \in worker[w].batch : worker[w].task[f].phase \in {"ok", "failed"}

\* ------------------------------------------------------------------ C11
\* What a listing holds: its files, their bytes, the paths of its subdirectories.
RECURSIVE FilesIn(_)
FilesIn(items) ==
  IF items = << >> THEN 0
  ELSE (IF Head(items).IsDirectory THEN 0 ELSE 1) + FilesIn(Tail(items))

RECURSIVE BytesIn(_)
BytesIn(items) ==
  IF items = << >> THEN 0
  ELSE (IF Head(items).IsDirectory THEN 0 ELSE Head(items).Length) + BytesIn(Tail(items))

SubdirsIn(path, items) ==
  {path \o items[k].ObjectName \o "/" : k \in {n \in DOMAIN items : items[n].IsDirectory}}

\* Crawler c is the only process that has run, and nothing has disturbed it.
SoloRun(c) ==
  /\ ops = 0 /\ ops' = 0
  /\ \A d \in Crawlers \ {c} : crawler[d].pc = "start" /\ crawler'[d].pc = "start"

\* The step of bumpProgress after a listing.
ListingCounted(c) ==
  (crawler[c].pc = "bump" /\ crawler'[c].pc = "markDone") =>
    /\ ProgressOf(crawler[c].job) # {}
    /\ \A i \in ProgressOf(crawler[c].job) :
         /\ migration_progress'[i].scanned_dirs = migration_progress[i].scanned_dirs + 1
         /\ migration_progress'[i].total_files
              = migration_progress[i].total_files + FilesIn(Items(c))
         /\ migration_progress'[i].total_bytes
              = migration_progress[i].total_bytes + BytesIn(Items(c))

\* The step of markDirDone(done) that ends the iteration.
ListingEnqueued(c) ==
  (crawler[c].pc = "markDone" /\ crawler'[c].pc = "heartbeat") =>
    /\ scan_queue'[ClaimedDir(c)].status = "done"
    /\ \A p \in SubdirsIn(ClaimedPath(c), Items(c)) :
         \E i \in DOMAIN scan_queue' :
           /\ scan_queue'[i].path = p /\ scan_queue'[i].status = "queued"
           /\ scan_queue'[i].parent_path = ClaimedPath(c)
    /\ \A i \in DOMAIN scan_queue' :
         \/ scan_queue'[i].path = "/"
         \/ scan_queue'[i].path
              \in SubdirsIn(scan_queue'[i].parent_path, ListDir(scan_queue'[i].parent_path))

\* The store after the first iteration over the root.
RootCrawled(c) ==
  (crawler[c].pc = "markDone" /\ crawler'[c].pc = "heartbeat" /\ ClaimedPath(c) = "/") =>
    /\ bunny_file_map' =
         << [path |-> "/a.txt", is_dir |-> FALSE, parent_path |-> "/", size |-> 10,
             status |-> "pending", claimed_at |-> NULL, claimed_by |-> NULL],
            [path |-> "/b/", is_dir |-> TRUE, parent_path |-> "/", size |-> NULL,
             status |-> "pending", claimed_at |-> NULL, claimed_by |-> NULL] >>
    /\ Len(scan_queue') = 2
    /\ scan_queue'[1].path = "/" /\ scan_queue'[1].status = "done"
    /\ scan_queue'[2].path = "/b/" /\ scan_queue'[2].status = "queued"
    /\ \A i \in ProgressOf(crawler[c].job) :
         /\ migration_progress'[i].scanned_dirs = 1
         /\ migration_progress'[i].total_files = 1
         /\ migration_progress'[i].total_bytes = 10
         /\ migration_progress'[i].migrated_files = 0
         /\ migration_progress'[i].failed_files = 0

\* C11: from a frontier holding only '/' and an empty inventory, one crawl
\* iteration of a crawler running alone leaves the inventory rows a.txt
\* (pending, file) and b/ (directory), the frontier rows '/' done and b/
\* queued, and progress 1 directory, 1 file, 10 bytes; every successful
\* listing adds 1 to scanned_dirs, its files to total_files, their sizes to
\* total_bytes, and enqueues exactly its subdirectories.
OneCrawlIteration ==
  [][\A c \in Crawlers :
       SoloRun(c) => (ListingCounted(c) /\ ListingEnqueued(c) /\ RootCrawled(c))]_vars

\* A crawler running alone has finished its iteration over the root.
RootIterationDone ==
  \E c \in Crawlers :
    /\ ops = 0
    /\ \A d \in Crawlers \ {c} : crawler[d].pc = "start"
    /\ crawler[c].pc = "heartbeat"
    /\ Len(scan_queue) = 2
    /\ scan_queue[1].status = "done" /\ scan_queue[2].status = "queued"

\* ------------------------------------------------------------------ C12
PendingFiles(bfm) == {i \in DOMAIN bfm : bfm[i].status = "pending" /\ ~bfm[i].is_dir}

MinOf(a, b) == IF a <= b THEN a ELSE b

\* C12: without contention, claim_files_to_migrate(n) on an inventory with k
\* pending files returns exactly min(n, k) of them, the first in path order;
\* the returned rows are no longer pending, every other row is as it was,
\* and directory rows are neither returned nor changed.
ClaimReturnsFirstPending ==
  LET n == ghost.call.batch_size
      before == ghost.call.before
      returned == ghost.call.returned
  IN n # NULL =>
       /\ returned \subseteq PendingFiles(before)
       /\ Cardinality(returned) = MinOf(n, Cardinality(PendingFiles(before)))
       /\ \A r \in returned : \A p \in PendingFiles(before) \ returned :
            PathRank(before[r].path) < PathRank(before[p].path)
       /\ DOMAIN bunny_file_map = DOMAIN before
       /\ \A i \in DOMAIN before :
            /\ i \in returned => bunny_file_map[i].status # "pending"
            /\ i \notin returned => bunny_file_map[i] = before[i]
            /\ before[i].is_dir => (i \notin returned /\ bunny_file_map[i] = before[i])

\* A call that asked for fewer files than were pending, on an inventory
\* whose insertion order is not its path order and which holds a pending
\* directory row.
ClaimedFewerThanPending ==
  LET before == ghost.call.before
  IN /\ ghost.call.batch_size = 1
     /\ Cardinality(PendingFiles(before)) = 2
     /\ Cardinality(ghost.call.returned) = 1
     /\ \E i \in DOMAIN before : before[i].is_dir /\ before[i].status = "pending"
     /\ \E i, j \in PendingFiles(before) :
          i < j /\ PathRank(before[j].path) < PathRank(before[i].path)

\* ------------------------------------------------------------------ C13
RECURSIVE ScannedUpTo(_)
ScannedUpTo(j) ==
  IF j = 0 THEN 0 ELSE ghost.issued[j].scanned_dirs + ScannedUpTo(j - 1)

DirsIn(statuses) == {i \in DOMAIN scan_queue : scan_queue[i].status \in statuses}

\* The listing threw: the catch of line 276 is entered and nothing is written.
ListingFailureCaught(c) ==
  (crawler[c].pc = "list" /\ crawler'[c].pc \notin {"list", "insert", "enqueue", "bump"}
     /\ ops' = ops) =>
    /\ crawler'[c].pc = "markFailed"
    /\ crawler'[c].sel = crawler[c].sel
    /\ UNCHANGED <<migration_jobs, migration_progress, scan_queue, ghost>>

\* markDirDone(dirId, 'failed'), then the top of the loop.
FailedEntryMarked(c) ==
  (crawler[c].pc = "markFailed" /\ crawler'[c].pc # "markFailed" /\ ops' = ops) =>
    /\ crawler'[c].pc = "heartbeat"
    /\ \A i \in crawler[c].sel : scan_queue'[i].status = "failed"
    /\ \A i \in DOMAIN scan_queue \ crawler[c].sel : scan_queue'[i] = scan_queue[i]
    /\ UNCHANGED <<migration_jobs, migration_progress, ghost>>

FailurePhases == {"logFail", "finFail", "incFail", "failed"}

\* While a batch is in flight the worker stays in it until it goes back to
\* the poll, and it goes back only with every file of the batch processed.
BatchRunsToItsEnd(w) ==
  (InBatch(w) /\ ops' = ops) =>
    /\ worker'[w].pc \in {worker[w].pc, "poll"}
    /\ worker'[w].job = worker[w].job
    /\ migration_jobs'[worker[w].job] = migration_jobs[worker[w].job]
    /\ worker'[w].pc = "poll" =>
         \A f \in worker[w].batch :
           /\ Task(w, f).phase \in {"ok", "failed"}
           /\ bunny_file_map[f].status \in {"migrated", "failed"}

\* A step of one task leaves the other tasks of the batch as they are,
\* but for handing a freed slot to a waiting one.
TasksIndependent(w) ==
  (InBatch(w) /\ worker'[w].pc = worker[w].pc) =>
    \A f, g \in worker[w].batch :
      (f # g /\ Task(w, f) # worker'[w].task[f] /\ Task(w, g).phase # "queued")
        => worker'[w].task[g] = Task(w, g)

\* C14: a file whose transfer failed on all attempts does not abort its
\* batch or its job: the batch ends only with every file migrated or failed,
\* no step of the batch writes the job, and the worker comes back to the
\* status poll that precedes its next claim.
FailedTransferDoesNotAbort ==
  /\ [][\A w \in Workers : BatchRunsToItsEnd(w) /\ TasksIndependent(w)]_vars
  /\ \A w \in Workers :
       (InBatch(w) /\ TasksIn(w, FailurePhases) # {}) ~> (worker[w].pc = "poll")

\* A worker is at its next claim after a batch of which one file failed and
\* the other was migrated, its job running.
NextClaimAfterFailedFile ==
  \E w \in Workers :
    /\ worker[w].pc = "claim1"
    /\ JobStatus(worker[w].job) = "running"
    /\ LogCount(worker[w].job, "failed") = 1
    /\ LogCount(worker[w].job, "success") = 1

\* ------------------------------------------------------------------ C15
\* The process leaves through the catch of run().
WorkerExitsOnError(w) == worker[w].pc = "fatal" /\ worker'[w].pc = "exited"
CrawlerExitsOnError(c) == crawler[c].pc = "fatal" /\ crawler'[c].pc = "exited"

\* C15: a store call that fails in the loop of a worker (status poll, claim,
\* log insert, finalize, progress increment) ends with the job marked failed
\* before the process exits, for the migration worker as for the crawler: no
\* process that exits on a store error leaves its job running.
StoreErrorMarksJobFailed ==
  [][/\ \A w \in Workers :
          WorkerExitsOnError(w) => migration_jobs'[worker[w].job].status = "failed"
     /\ \A c \in Crawlers :
          (CrawlerExitsOnError(c) /\ crawler[c].job # NoJob)
            => migration_jobs'[crawler[c].job].status = "failed"]_vars

\* ------------------------------------------------------------------ C16
FileLogs(f, job_id, status) ==
  LET rows == {r \in BagToSet(migration_logs) :
                 r.file_id = f /\ r.job_id = job_id /\ r.status = status}
  IN BagCardinality([r \in rows |-> migration_logs[r]])

\* C16: a file whose download and upload went through on some attempt is
\* not transferred again and not recorded as failed, also when a write after
\* the upload raises an error: its task only moves on through the three
\* success writes, and once it has returned the file has exactly one success
\* log row, no failed one, and is migrated with its claim fields cleared.
UploadedFileEndsMigrated ==
  \A w \in Workers : \A f \in DOMAIN worker[w].task :
    Task(w, f).uploaded =>
      /\ Task(w, f).phase \in {"logOk", "finOk", "incOk", "ok"}
      /\ FileLogs(f, worker[w].job, "failed") = 0
      /\ FileLogs(f, worker[w].job, "success") <= 1
      /\ Task(w, f).phase = "ok" =>
           /\ FileLogs(f, worker[w].job, "success") = 1
           /\ bunny_file_map[f].status = "migrated"
           /\ bunny_file_map[f].claimed_at = NULL
           /\ bunny_file_map[f].claimed_by = NULL

\* ------------------------------------------------------------------ C17
\* The positions of run() outside Promise.all.
LoopPositions ==
  {"poll", "paused", "claim1", "txn1", "sleep", "claim2", "txn2", "complete"}

\* C17: within one worker process the next status poll and the next batch
\* claim come only after every transfer dispatched from the current batch
\* has returned (ok or failed): outside Promise.all no task exists, inside
\* it the tasks are those of the one batch claimed last, and the step that
\* leaves it for the poll finds every task returned.
OneBatchInFlight ==
  /\ [](\A w \in Workers :
          /\ worker[w].pc \in LoopPositions => DOMAIN worker[w].task = {}
          /\ InBatch(w) => /\ DOMAIN worker[w].task = worker[w].batch
                           /\ Cardinality(worker[w].batch) <= BATCH_SIZE)
  /\ [][\A w \in Workers :
          /\ (InBatch(w) /\ worker'[w].pc \in LoopPositions) =>
               /\ worker'[w].pc = "poll"
               /\ \A f \in worker[w].batch : Task(w, f).phase \in {"ok", "failed"}
          /\ (ClaimStepM(w) \/ (worker[w].pc = "poll" /\ worker'[w].pc # "poll")) =>
               DOMAIN worker[w].task = {}]_vars

\* A worker waits in Promise.all: one transfer of its batch has returned,
\* the other is still in flight.
WaitingForLastTransfer ==
  \E w \in Workers : \E f, g \in worker[w].batch :
    /\ InBatch(w)
    /\ Task(w, f).phase = "ok"
    /\ Task(w, g).phase \in {"transfer", "backoff"}

\* ------------------------------------------------------------------ C18
EndStatuses == {"stopped", "failed", "completed"}

WorkerJobEnded(w) ==
  worker[w].job # NoJob /\ JobStatus(worker[w].job) \in EndStatuses

CrawlerJobEnded(c) ==
  crawler[c].job # NoJob /\ JobStatus(crawler[c].job) \in EndStatuses

\* The poll that reads an end status leaves the loop, and a process that
\* has left its loop stays out of it.
PollEndsLoop ==
  /\ \A w \in Workers :
       /\ (worker[w].pc = "poll" /\ worker'[w].pc # "poll" /\ WorkerJobEnded(w))
            => (worker'[w].pc = "exited" /\ DOMAIN worker[w].task = {})
       /\ worker[w].pc = "exited" => worker'[w].pc = "exited"
  /\ \A c \in Crawlers :
       /\ (crawler[c].pc = "poll" /\ crawler'[c].pc # "poll" /\ CrawlerJobEnded(c))
            => (crawler'[c].pc = "exited" /\ crawler[c].sel = {})
       /\ crawler[c].pc = "exited" => crawler'[c].pc = "exited"

\* A file in the claimed state is in the batch a worker is processing.
NoClaimAbandoned ==
  \A f \in DOMAIN bunny_file_map :
    bunny_file_map[f].status = "scanned" =>
      \E w \in Workers : (InBatch(w) \/ InTxn(w)) /\ f \in worker[w].batch

\* C18: once the status of a job is stopped, failed or completed and stays
\* so, the process running it claims nothing after the poll that reads the
\* status and leaves its loop; what it had claimed before that poll is
\* driven to migrated or failed, no file is left in the claimed state.
EndStatusEndsLoop ==
  /\ [][PollEndsLoop]_vars
  /\ []NoClaimAbandoned
  /\ \A w \in Workers :
       WorkerJobEnded(w) ~> (worker[w].pc = "exited" \/ ~WorkerJobEnded(w))
  /\ \A c \in Crawlers :
       CrawlerJobEnded(c) ~> (crawler[c].pc = "exited" \/ ~CrawlerJobEnded(c))

\* A worker whose job was stopped has left its loop after processing the
\* batch it had claimed; nothing is left in the claimed state.
ExitedAfterStop ==
  \E w \in Workers :
    /\ worker[w].pc = "exited"
    /\ JobStatus(worker[w].job) = "stopped"
    /\ LogCount(worker[w].job, "success") + LogCount(worker[w].job, "failed") = BATCH_SIZE

\* ------------------------------------------------------------------ C19
ForwardMoves == {<<"queued", "claimed">>, <<"claimed", "done">>, <<"claimed", "failed">>}

\* Every frontier row stays.  A step of a crawler sets no row back to
\* queued and claims none that is not queued; a done row is not queued or
\* claimed again by any step, a reclaim of the operator included.  With no
\* outside event every change of status is one of the forward moves.
FrontierStep ==
  \A i \in DOMAIN scan_queue :
    /\ i \in DOMAIN scan_queue'
    /\ scan_queue'[i].path = scan_queue[i].path
    /\ scan_queue[i].status = "done" => scan_queue'[i].status \notin {"queued", "claimed"}
    /\ (ProcessStep /\ scan_queue'[i].status # scan_queue[i].status) =>
         /\ scan_queue'[i].status # "queued"
         /\ scan_queue'[i].status = "claimed" => scan_queue[i].status = "queued"
         /\ scan_queue'[i].status \in {"done", "failed"} =>
              \E c \in Crawlers : i \in crawler[c].sel
                                  /\ crawler[c].pc \in {"markDone", "markFailed"}
         /\ ops' = 0 => <<scan_queue[i].status, scan_queue'[i].status>> \in ForwardMoves

\* A claim is granted on queued rows only, and never on a done one.
ClaimsOnlyQueued ==
  \A c \in Crawlers :
    (crawler[c].pc = "txn" /\ crawler'[c].pc \notin {"txn", "crashed"})
      => \A i \in crawler[c].sel : scan_queue[i].status = "queued"

ReapJobsStep == ops' = ops + 1 /\ worker' = worker /\ now' = now

WorkerDied(j) == \E w \in Workers : worker[w].job = j /\ worker[w].pc = "crashed"

WorkerLive(j) ==
  \E w \in Workers : /\ worker[w].job = j
                     /\ worker[w].pc \notin {"off", "start", "exited", "crashed", "fatal"}

\* The last sign of life of a job: its last heartbeat, or its creation.
LastSeen(j) ==
  IF migration_jobs[j].last_heartbeat # NULL
    THEN migration_jobs[j].last_heartbeat ELSE migration_jobs[j].created_at

\* C20: the stale-job reaper flips to failed exactly the running jobs of its
\* kind that have gone silent for longer than the threshold: a running job
\* whose worker has died is failed by the first reap after the threshold,
\* the job of a live worker is never reaped, and jobs that are paused,
\* stopped, completed or failed, or of another kind, are left as they are.
StaleJobsReaped ==
  [][ReapJobsStep =>
       \A j \in DOMAIN migration_jobs :
         /\ (/\ migration_jobs[j].kind = "migrate"
             /\ migration_jobs[j].status = "running"
             /\ WorkerDied(j)
             /\ now - LastSeen(j) > STALE_MINUTES)
              => migration_jobs'[j].status = "failed"
         /\ WorkerLive(j) => migration_jobs'[j] = migration_jobs[j]
         /\ (migration_jobs[j].kind # "migrate" \/ migration_jobs[j].status # "running")
              => migration_jobs'[j] = migration_jobs[j]]_vars

\* ------------------------------------------------------------------ C21
\* The workers that hold file f: claimed in their batch, not yet returned.
Holders(f) ==
  {w \in Workers : /\ InBatch(w) /\ f \in worker[w].batch
                   /\ Task(w, f).phase \notin {"ok", "failed"}}

\* The workers whose task on f is between download and upload.
Transferring(f) ==
  {w \in Workers : InBatch(w) /\ f \in worker[w].batch /\ Task(w, f).phase = "transfer"}

\* C21: no file is transferred by two workers at once: a file held by a
\* live worker (claimed in its batch, not yet finalized) is not claimable,
\* neither a reap of stale claims nor a retry request sets it to pending,
\* so no second worker holds or transfers it.
NoConcurrentTransfer ==
  \A f \in DOMAIN bunny_file_map :
    /\ Cardinality(Transferring(f)) <= 1
    /\ Cardinality(Holders(f)) <= 1
    /\ \A w \in Holders(f) :
         Task(w, f).phase \in {"queued", "transfer", "backoff", "logOk", "logFail"}
           => bunny_file_map[f].status # "pending"

\* ------------------------------------------------------------------ C22
\* C22: whenever a discover job is completed the frontier holds no entry
\* queued or claimed, also when two crawlers share a job and one of them
\* gets an empty claim while the other is still listing.
CompletedMeansExhausted ==
  \A j \in DOMAIN migration_jobs :
    (migration_jobs[j].kind = "discover" /\ migration_jobs[j].status = "completed")
      => DirsIn({"queued", "claimed"}) = {}

\* ------------------------------------------------------------------ C23
\* The discover jobs that are running with a heartbeat (or creation) no
\* older than the staleness threshold.
HealthyDiscoverJobs ==
  {j \in DOMAIN migration_jobs :
     /\ migration_jobs[j].kind = "discover"
     /\ migration_jobs[j].status = "running"
     /\ now - LastSeen(j) <= STALE_MINUTES}

\* C23: with ALLOW_PARALLEL_DISCOVER = false at most one discover job is
\* running with a fresh heartbeat: of two crawlers started together only one
\* creates a job, the other reuses the one findHealthyRunningJob returns.
OneHealthyDiscoverJob ==
  /\ Cardinality(HealthyDiscoverJobs) <= 1
  /\ \A c, d \in Crawlers :
       (c # d /\ crawler[c].created # NoJob /\ crawler[d].created # NoJob)
         => \/ migration_jobs[crawler[c].created].status # "running"
            \/ migration_jobs[crawler[d].created].status # "running"

\* ------------------------------------------------------------------ C24
\* A counter summed over the progress rows of the discover jobs.
RECURSIVE DiscoverTotal(_, _)
DiscoverTotal(k, counter) ==
  IF k = 0 THEN 0
  ELSE (IF migration_jobs[migration_progress[k].job_id].kind = "discover"
          THEN migration_progress[k][counter] ELSE 0)
       + DiscoverTotal(k - 1, counter)

RECURSIVE InventoryBytes(_)
InventoryBytes(k) ==
  IF k = 0 THEN 0
  ELSE (IF bunny_file_map[k].is_dir THEN 0 ELSE bunny_file_map[k].size)
       + InventoryBytes(k - 1)

\* No crawler has a directory in hand: every process is between iterations.
BetweenIterations == \A c \in Crawlers : crawler[c].sel = {}

\* Every job has its progress row, and the row holds every delta passed.
NoDeltaLost ==
  \A j \in DOMAIN migration_jobs :
    \E i \in ProgressOf(j) : \A k \in Counters : migration_progress[i][k] = ghost.issued[j][k]

\* C24: between loop iterations of a discovery run total_files is the
\* number of files in the inventory, total_bytes the sum of their sizes and
\* scanned_dirs the number of frontier entries done; a failed directory
\* counts for nothing and no file is counted twice, also when its directory
\* is listed again.  Stated for the states in which no delta was lost on its
\* way into the progress row.
CountersMatchInventory ==
  (BetweenIterations /\ NoDeltaLost) =>
    /\ DiscoverTotal(Len(migration_progress), "total_files") = Cardinality(FileRows)
    /\ DiscoverTotal(Len(migration_progress), "total_bytes")
         = InventoryBytes(Len(bunny_file_map))
    /\ DiscoverTotal(Len(migration_progress), "scanned_dirs")
         = Cardinality(DirsIn({"done"}))

\* ------------------------------------------------------------------ C25
\* The log rows of a file, of any job and status.
AllLogs(f) ==
  LET rows == {r \in BagToSet(migration_logs) : r.file_id = f}
  IN BagCardinality([r \in rows |-> migration_logs[r]])

\* Every task of every worker has returned.
NoTransferInFlight ==
  \A w \in Workers : \A f \in DOMAIN worker[w].task : Task(w, f).phase \in {"ok", "failed"}

\* A task that has returned: the log rows of its file and the status of the
\* file in the inventory.
OneLogPerClaim(w, f) ==
  /\ Task(w, f).phase = "ok"
       => AllLogs(f) = 1 /\ FileLogs(f, worker[w].job, "success") = 1
  /\ Task(w, f).phase = "failed"
       => AllLogs(f) = 1 /\ FileLogs(f, worker[w].job, "failed") = 1

StatusAgreesWithLog(w, f) ==
  /\ Task(w, f).phase = "ok" => bunny_file_map[f].status = "migrated"
  /\ Task(w, f).phase = "failed" => bunny_file_map[f].status = "failed"

\* C25: a claim of a file that its worker processes to the end produces
\* exactly one log row, and the inventory status written for the file agrees
\* with it (success row and migrated, failed row and failed); when no
\* transfer is in flight, migrated_files of a migrate job is the number of
\* its success rows and failed_files the number of its failed rows.
OneLogPerProcessedClaim ==
  /\ \A w \in Workers : \A f \in DOMAIN worker[w].task :
       OneLogPerClaim(w, f) /\ StatusAgreesWithLog(w, f)
  /\ NoTransferInFlight =>
       \A w \in Workers : \A i \in ProgressOf(worker[w].job) :
         /\ migration_progress[i].migrated_files = LogCount(worker[w].job, "success")
         /\ migration_progress[i].failed_files = LogCount(worker[w].job, "failed")

====
